---- MODULE Spec2Model ----
(***************************************************************************)
(* Reliable file transfer over UDP (src/src/application.py): the packet    *)
(* codec, the sender (sendFile / sendPacket) and the receiver              *)
(* (receiveFile), connected by two datagram channels.                      *)
(*                                                                         *)
(* A datagram is the sequence of bytes the code builds: the six header     *)
(* bytes of struct.pack("HHH", ...) followed by the payload.  In the       *)
(* codec specification the payload is a sequence of bytes.  In the         *)
(* protocol specifications the source file is the free file whose byte at  *)
(* offset p is p itself, and the bytes file.read returns at offset off are *)
(* carried as one run [off, len], standing for the bytes off..off+len-1.   *)
(***************************************************************************)
EXTENDS Integers, Sequences, FiniteSets, TLC

\* ---------------------------------------------------------------- bounds
MaxChunks == 2        \* largest file, in chunks, of the lossy specifications
MaxChunksFifo == 4    \* largest file, in chunks, of the loss-free specification
MaxW == 2             \* largest configured window size of the lossy specifications
MaxWFifo == 3         \* largest configured window size of the loss-free specification
ChanCap == 2          \* datagrams a channel holds; a datagram sent beyond it is lost
MaxLoss == 1          \* datagrams the fair-lossy channel loses in one run
MaxDup == 1           \* datagrams the duplicating channel duplicates in one run
MaxPayloadLen == 2    \* longest enumerated short payload of the codec specification

\* ------------------------------------------------------ program constants
HEADER_SIZE == 6
FLAGS_SYN == 1
FLAGS_ACK == 2
FLAGS_FIN == 4
DATA_SIZE == 994
MAX_PACKET_SIZE == 1000
U16 == 65536          \* range of a struct "H" field
None == -1            \* Python None (the discard option when it is absent or consumed)

VARIABLES
    filesize,         \* os.path.getsize(filename)
    window_size,      \* args.window
    spc,              \* sender position: Start, SynSent, Established, FinWait, Closed, Failed,
                      \* StructError
    seq_num,          \* sendFile's seq_num
    window,           \* sendFile's window (list of sequence numbers)
    unack_packets,    \* key set of sendFile's unack_packets
    fin_packet,       \* sendFile's fin_packet (<<>> before it is built)
    acked,            \* largest ack_num processed so far in the data loop (history)
    rpc,              \* receiver position: Listen, SynRcvd, Established, Closed, Failed,
                      \* StructError
    expected_seq_num, \* receiveFile's expected_seq_num
    received_data,    \* receiveFile's received_data
    rcv_seq_num,      \* receiveFile's seq_num: of the packet it parsed last (None before)
    rcv_flags,        \* receiveFile's flags: of the packet it parsed last (None before)
    discard,          \* receiveFile's discard
    discard0,         \* the configured discard option (history)
    dropped,          \* sequence numbers the discard hook has dropped (history)
    received_file,    \* contents written to "received_file"
    to_server,        \* datagrams in flight to the receiver
    to_client,        \* datagrams in flight to the sender
    sendto,           \* datagrams passed to sock.sendto by the last step (history)
    step,             \* the last step: who took it, on what event, with which datagram,
                      \* and the sender's window before it (history)
    txLog,            \* header -> 1 if it was passed to sock.sendto once, 2 if more than once (history)
    losses,           \* datagrams lost so far by the fair-lossy channel
    dups,             \* datagrams duplicated so far by the duplicating channel
    codec             \* state of the codec specification

vars == <<filesize, window_size, spc, seq_num, window, unack_packets, fin_packet,
          acked, rpc, expected_seq_num, received_data, rcv_seq_num, rcv_flags,
          discard, discard0, dropped,
          received_file, to_server, to_client, sendto, step, txLog, losses, dups,
          codec>>

\* ------------------------------------------------------------ small helpers
Range(s) == {s[i] : i \in DOMAIN s}

Min(a, b) == IF a <= b THEN a ELSE b

RemoveAt(s, i) == SubSeq(s, 1, i - 1) \o SubSeq(s, i + 1, Len(s))

\* flags & f, for a single-bit f
HasFlag(flags, f) == (flags \div f) % 2 = 1

\* ------------------------------------------------------------ packet codec
\* mutant of PackH: the field is packed high byte first ("!H") but unpacked natively
PackH_BigEndian(v) == <<(v \div 256) % 256, v % 256>>

\* struct.pack("H", v): two bytes in native order, low byte first on the usual
\* little-endian hosts; outside 0..65535 struct.pack raises struct.error (FitsHeader)
PackH(v) == <<v % 256, (v \div 256) % 256>>

UnpackH(b) == b[1] + 256 * b[2]

\* struct.pack("I", v)
PackI(v) == <<v % 256, (v \div 256) % 256, (v \div 65536) % 256, (v \div 16777216) % 256>>

UnpackI(b) == b[1] + 256 * b[2] + 65536 * b[3] + 16777216 * b[4]

FitsHeader(seq, ack, flags) ==
    /\ seq \in 0..(U16 - 1)
    /\ ack \in 0..(U16 - 1)
    /\ flags \in 0..(U16 - 1)

createPacket(seq, ack, flags, data) ==
    PackH(seq) \o PackH(ack) \o PackH(flags) \o data

parsePacket(packet) ==
    LET header == SubSeq(packet, 1, HEADER_SIZE)
        data == SubSeq(packet, HEADER_SIZE + 1, Len(packet))
    IN  [seq_num |-> UnpackH(SubSeq(header, 1, 2)),
         ack_num |-> UnpackH(SubSeq(header, 3, 4)),
         flags |-> UnpackH(SubSeq(header, 5, 6)),
         data |-> data]

createSynPacket(seq, ack, flags, file_size) ==
    PackH(seq) \o PackH(ack) \o PackH(flags) \o PackI(file_size)

\* ok = FALSE is the ValueError("Incomplete file size data received")
parseSynPacket(packet) ==
    LET header == SubSeq(packet, 1, HEADER_SIZE)
        file_size_data == SubSeq(packet, HEADER_SIZE + 1, Min(Len(packet), HEADER_SIZE + 4))
    IN  [ok |-> Len(file_size_data) >= 4,
         seq_num |-> UnpackH(SubSeq(header, 1, 2)),
         ack_num |-> UnpackH(SubSeq(header, 3, 4)),
         flags |-> UnpackH(SubSeq(header, 5, 6)),
         file_size |-> IF Len(file_size_data) >= 4 THEN UnpackI(file_size_data) ELSE 0]

Header(packet) == SubSeq(packet, 1, HEADER_SIZE)

\* ------------------------------------------------------------- source file
\* number of 994-byte chunks of a file of s bytes
NumChunks(s) == (s + DATA_SIZE - 1) \div DATA_SIZE

\* file.seek(off); file.read(DATA_SIZE): the bytes off .. off+len-1 as one run
FileRead(off) ==
    LET len == IF off < filesize THEN Min(DATA_SIZE, filesize - off) ELSE 0
    IN  IF len = 0 THEN <<>> ELSE <<[off |-> off, len |-> len]>>

\* the whole source file, as runs of chunk size
RECURSIVE FileRuns(_)
FileRuns(off) == IF off >= filesize THEN <<>> ELSE FileRead(off) \o FileRuns(off + DATA_SIZE)

\* number of bytes of a payload made of runs
RECURSIVE ByteLen(_)
ByteLen(data) == IF data = <<>> THEN 0 ELSE Head(data).len + ByteLen(Tail(data))

\* ---------------------------------------------------------------- channels
\* sock.sendto of each datagram of out, in order; a channel holds cap datagrams
Put(chan, out, cap) ==
    LET room == cap - Len(chan)
    IN  chan \o SubSeq(out, 1, Min(room, Len(out)))

\* a capacity the channels of the loss-free and fair-lossy specifications never reach
FreeCap == MaxW + MaxWFifo + MaxDup + 4

Quiescent == to_server = <<>> /\ to_client = <<>>

RECURSIVE LogAll(_, _)
LogAll(log, out) ==
    IF out = <<>> THEN log
    ELSE LET h == Header(Head(out))
             n == IF h \in DOMAIN log THEN 2 ELSE 1
         IN  LogAll([k \in DOMAIN log \cup {h} |-> IF k = h THEN n ELSE log[k]], Tail(out))

Sent(h) == IF h \in DOMAIN txLog THEN txLog[h] ELSE 0

\* ------------------------------------------------------------------ sender
syn_packet == createSynPacket(0, 0, FLAGS_SYN, filesize)

DataPacket(seq) == createPacket(seq, 0, 0, FileRead(DATA_SIZE * (seq - 1)))

\* mutant of sendPacket: the file is read one chunk too far (seek to DATA_SIZE * seq_num)
sendPacket_SeekNext(seq, win) ==
    LET data == FileRead(DATA_SIZE * seq)
        window_after == IF seq \notin Range(win) THEN Append(win, seq) ELSE win
    IN  IF seq \notin Range(win) /\ data = <<>>
        THEN [ok |-> FALSE, error |-> FALSE, window |-> win, sent |-> <<>>]
        ELSE IF ~FitsHeader(seq, 0, 0)
             THEN [ok |-> FALSE, error |-> TRUE, window |-> window_after, sent |-> <<>>]
             ELSE [ok |-> TRUE, error |-> FALSE, window |-> window_after,
                   sent |-> <<createPacket(seq, 0, 0, data)>>]

\* sendPacket(seq, window, ...): its return value, the window it leaves and
\* the datagram it sends; error = TRUE is the struct.error that createPacket
\* (line 196) raises for a seq_num that does not fit the header, after the
\* window was appended to
sendPacket(seq, win) ==
    LET data == FileRead(DATA_SIZE * (seq - 1))
        window_after == IF seq \notin Range(win) THEN Append(win, seq) ELSE win
    IN  IF seq \notin Range(win) /\ data = <<>>
        THEN [ok |-> FALSE, error |-> FALSE, window |-> win, sent |-> <<>>]
        ELSE IF ~FitsHeader(seq, 0, 0)
             THEN [ok |-> FALSE, error |-> TRUE, window |-> window_after, sent |-> <<>>]
             ELSE [ok |-> TRUE, error |-> FALSE, window |-> window_after,
                   sent |-> <<createPacket(seq, 0, 0, data)>>]

\* while len(window) < window_size: if sendPacket(seq_num, ...): ... else: break
\* (r is the one value sendPacket returns in an iteration; error = TRUE when
\* sendPacket raised struct.error)
RECURSIVE FillWindow(_, _, _, _)
FillWindow(seq, win, unack, sent) ==
    IF Len(win) < window_size
    THEN CHOOSE f \in
             {IF r.ok
              THEN FillWindow(seq + 1, r.window, unack \cup {seq}, sent \o r.sent)
              ELSE [seq_num |-> seq, window |-> r.window, unack_packets |-> unack,
                    sent |-> sent, error |-> r.error]
              : r \in {sendPacket(seq, win)}} : TRUE
    ELSE [seq_num |-> seq, window |-> win, unack_packets |-> unack, sent |-> sent,
          error |-> FALSE]

\* mutant of FilterWindow: the acknowledged number itself stays in the window
FilterWindow_KeepEqual(win, ack_num) == SelectSeq(win, LAMBDA m : m >= ack_num)

\* mutant of FilterWindow: only the exact match is removed
FilterWindow_ExactOnly(win, ack_num) == SelectSeq(win, LAMBDA m : m # ack_num)

\* the filter of lines 318-337: keep what is larger than ack_num
RECURSIVE FilterWindow(_, _)
FilterWindow(win, ack_num) ==
    IF win = <<>> THEN <<>>
    ELSE IF Head(win) > ack_num
         THEN <<Head(win)>> \o FilterWindow(Tail(win), ack_num)
         ELSE FilterWindow(Tail(win), ack_num)

\* mutant of Retransmit: only the oldest outstanding packet is resent
Retransmit_FirstOnly(todo, win) ==
    IF todo = <<>> THEN <<>> ELSE sendPacket(Head(todo), win).sent

\* for seq in window: sendPacket(seq, window, ..., retransmit=True, ...)
RECURSIVE Retransmit(_, _)
Retransmit(todo, win) ==
    IF todo = <<>> THEN <<>>
    ELSE sendPacket(Head(todo), win).sent \o Retransmit(Tail(todo), win)

\* The top of the data loop (lines 285-302, 370-372), reached with seq, win
\* and unack after the step has already sent the datagrams `sent`: fill the
\* window; with an empty window leave the loop and send FIN, otherwise block
\* in recvfrom.
\* A struct.error raised by createPacket (line 196 in sendPacket, line 371
\* for the FIN) is caught nowhere and ends the program: StructError.
DataLoop(seq, win, unack, sent, cap) ==
    \E f \in {FillWindow(seq, win, unack, <<>>)} :
        LET finished == ~f.error /\ f.window = <<>>
            error == f.error \/ (finished /\ ~FitsHeader(f.seq_num, 0, FLAGS_FIN))
            fin == createPacket(f.seq_num, 0, FLAGS_FIN, <<>>)
        IN  \E out \in {sent \o f.sent \o (IF finished /\ ~error THEN <<fin>> ELSE <<>>)} :
                /\ seq_num' = f.seq_num
                /\ window' = f.window
                /\ unack_packets' = f.unack_packets
                /\ fin_packet' = IF finished /\ ~error THEN fin ELSE fin_packet
                /\ spc' = IF error THEN "StructError"
                          ELSE IF finished THEN "FinWait" ELSE "Established"
                /\ to_server' = Put(to_server, out, cap)
                /\ sendto' = out
                /\ txLog' = LogAll(txLog, out)

\* sendPacket raised struct.error in the refill of lines 340-349, after the
\* datagrams f.sent were sent: the program ends
RefillError(f, cap) ==
    /\ seq_num' = f.seq_num
    /\ window' = f.window
    /\ unack_packets' = f.unack_packets
    /\ fin_packet' = fin_packet
    /\ spc' = "StructError"
    /\ to_server' = Put(to_server, f.sent, cap)
    /\ sendto' = f.sent
    /\ txLog' = LogAll(txLog, f.sent)

receiverVars == <<rpc, expected_seq_num, received_data, rcv_seq_num, rcv_flags, discard,
                  dropped, received_file>>
configVars == <<filesize, window_size, discard0, codec>>
senderVars == <<spc, seq_num, window, unack_packets, fin_packet, acked>>

\* mutant of handshake_ack_packet: the received seq_num is echoed, not seq_num + 1
handshake_ack_packet_Echo(seq) == createPacket(1, seq, FLAGS_ACK, <<>>)

\* line 270: ack_packet = createPacket(1, seq_num + 1, FLAGS_ACK), with the
\* seq_num of the SYN-ACK just parsed
handshake_ack_packet(seq) == createPacket(1, seq + 1, FLAGS_ACK, <<>>)

\* lines 236-239: the SYN is sent
SndStart(cap) ==
    /\ spc = "Start"
    /\ spc' = "SynSent"
    /\ to_server' = Put(to_server, <<syn_packet>>, cap)
    /\ sendto' = <<syn_packet>>
    /\ txLog' = LogAll(txLog, <<syn_packet>>)
    /\ step' = [by |-> "sender", event |-> "start", packet |-> <<>>, window |-> window]
    /\ UNCHANGED <<seq_num, window, unack_packets, fin_packet, acked, to_client, losses, dups>>
    /\ UNCHANGED <<receiverVars, configVars>>

\* lines 242-283: a datagram arrives while the sender waits for SYN-ACK
SndSynSent(i, cap) ==
    /\ spc = "SynSent"
    /\ i \in DOMAIN to_client
    /\ to_client' = RemoveAt(to_client, i)
    /\ step' = [by |-> "sender", event |-> "recv", packet |-> to_client[i], window |-> window]
    /\ \E r \in {parseSynPacket(to_client[i])} :
           IF ~r.ok
           THEN /\ spc' = "Failed"
                /\ sendto' = <<>>
                /\ UNCHANGED <<seq_num, window, unack_packets, fin_packet, to_server, txLog>>
           ELSE IF HasFlag(r.flags, FLAGS_SYN) /\ HasFlag(r.flags, FLAGS_ACK)
                THEN DataLoop(1, <<>>, {}, <<handshake_ack_packet(r.seq_num)>>, cap)
                ELSE /\ seq_num' = r.seq_num
                     /\ sendto' = <<>>
                     /\ UNCHANGED <<spc, window, unack_packets, fin_packet, to_server, txLog>>
    /\ UNCHANGED <<acked, losses, dups, receiverVars, configVars>>

\* lines 255-257: receive-timeout while waiting for SYN-ACK
SndSynTimeout(cap) ==
    /\ spc = "SynSent"
    /\ to_server' = Put(to_server, <<syn_packet>>, cap)
    /\ sendto' = <<syn_packet>>
    /\ txLog' = LogAll(txLog, <<syn_packet>>)
    /\ step' = [by |-> "sender", event |-> "timeout", packet |-> <<>>, window |-> window]
    /\ UNCHANGED <<senderVars, to_client, losses, dups, receiverVars, configVars>>

\* lines 305-349, then 285-302: a datagram arrives in the data loop
SndEstablished(i, cap) ==
    /\ spc = "Established"
    /\ i \in DOMAIN to_client
    /\ to_client' = RemoveAt(to_client, i)
    /\ step' = [by |-> "sender", event |-> "recv", packet |-> to_client[i], window |-> window]
    /\ \E p \in {parsePacket(to_client[i])} :
           IF HasFlag(p.flags, FLAGS_ACK)
           THEN LET filtered_window == FilterWindow(window, p.ack_num)
                    filtered_unack_packets == {s \in unack_packets : s > p.ack_num}
                IN  \E f \in {FillWindow(seq_num, filtered_window,
                                         filtered_unack_packets, <<>>)} :
                        /\ IF f.error
                           THEN RefillError(f, cap)
                           ELSE DataLoop(f.seq_num, f.window, f.unack_packets, f.sent, cap)
                        /\ acked' = IF p.ack_num > acked THEN p.ack_num ELSE acked
           ELSE /\ DataLoop(seq_num, window, unack_packets, <<>>, cap)
                /\ acked' = acked
    /\ UNCHANGED <<losses, dups, receiverVars, configVars>>

\* lines 352-368: receive-timeout in the data loop
SndDataTimeout(cap) ==
    /\ spc = "Established"
    /\ step' = [by |-> "sender", event |-> "timeout", packet |-> <<>>, window |-> window]
    /\ \E resent \in {Retransmit(window, window)} :
           DataLoop(seq_num, window, unack_packets \cup Range(window), resent, cap)
    /\ UNCHANGED <<acked, to_client, losses, dups, receiverVars, configVars>>

\* lines 376-391: a datagram arrives while the sender waits for FIN-ACK
SndFinWait(i, cap) ==
    /\ spc = "FinWait"
    /\ i \in DOMAIN to_client
    /\ to_client' = RemoveAt(to_client, i)
    /\ step' = [by |-> "sender", event |-> "recv", packet |-> to_client[i], window |-> window]
    /\ sendto' = <<>>
    /\ LET p == parsePacket(to_client[i])
       IN  /\ seq_num' = p.seq_num
           /\ spc' = IF HasFlag(p.flags, FLAGS_FIN) /\ HasFlag(p.flags, FLAGS_ACK)
                     THEN "Closed" ELSE "FinWait"
    /\ UNCHANGED <<window, unack_packets, fin_packet, acked, to_server, txLog, losses, dups>>
    /\ UNCHANGED <<receiverVars, configVars>>

\* lines 389-390: receive-timeout while waiting for FIN-ACK
SndFinTimeout(cap) ==
    /\ spc = "FinWait"
    /\ to_server' = Put(to_server, <<fin_packet>>, cap)
    /\ sendto' = <<fin_packet>>
    /\ txLog' = LogAll(txLog, <<fin_packet>>)
    /\ step' = [by |-> "sender", event |-> "timeout", packet |-> <<>>, window |-> window]
    /\ UNCHANGED <<senderVars, to_client, losses, dups, receiverVars, configVars>>

\* ---------------------------------------------------------------- receiver
\* mutant of Store: the payload is stored under the next key
Store_Next(rd, seq, data) ==
    [k \in DOMAIN rd \cup {seq + 1} |-> IF k = seq + 1 THEN data ELSE rd[k]]

\* received_data[seq] = data
Store(rd, seq, data) == [k \in DOMAIN rd \cup {seq} |-> IF k = seq THEN data ELSE rd[k]]

\* for seq in sorted(received_data): file.write(received_data[seq])
RECURSIVE WriteFile(_, _)
WriteFile(rd, keys) ==
    IF keys = {} THEN <<>>
    ELSE LET k == CHOOSE x \in keys : \A y \in keys : x <= y
         IN  rd[k] \o WriteFile(rd, keys \ {k})

\* lines 418-432: a datagram arrives while the receiver waits for SYN
RcvListen(i, cap) ==
    /\ rpc = "Listen"
    /\ i \in DOMAIN to_server
    /\ to_server' = RemoveAt(to_server, i)
    /\ step' = [by |-> "receiver", event |-> "recv", packet |-> to_server[i], window |-> window]
    /\ LET r == parseSynPacket(to_server[i])
           syn_ack_packet == createSynPacket(r.seq_num + 1, 0, FLAGS_SYN + FLAGS_ACK, r.file_size)
       IN  IF ~r.ok
           THEN /\ rpc' = "Failed"
                /\ sendto' = <<>>
                /\ UNCHANGED <<to_client, txLog, rcv_seq_num, rcv_flags>>
           ELSE /\ rcv_seq_num' = r.seq_num
                /\ rcv_flags' = r.flags
                /\ IF HasFlag(r.flags, FLAGS_SYN)
                   THEN /\ rpc' = "SynRcvd"
                        /\ to_client' = Put(to_client, <<syn_ack_packet>>, cap)
                        /\ sendto' = <<syn_ack_packet>>
                        /\ txLog' = LogAll(txLog, <<syn_ack_packet>>)
                   ELSE /\ sendto' = <<>>
                        /\ UNCHANGED <<rpc, to_client, txLog>>
    /\ UNCHANGED <<expected_seq_num, received_data, discard, dropped, received_file>>
    /\ UNCHANGED <<losses, dups, senderVars, configVars>>

\* lines 435-452: a datagram arrives while the receiver waits for the handshake ACK
RcvSynRcvd(i) ==
    /\ rpc = "SynRcvd"
    /\ i \in DOMAIN to_server
    /\ to_server' = RemoveAt(to_server, i)
    /\ step' = [by |-> "receiver", event |-> "recv", packet |-> to_server[i], window |-> window]
    /\ sendto' = <<>>
    /\ LET p == parsePacket(to_server[i])
       IN  /\ rcv_seq_num' = p.seq_num
           /\ rcv_flags' = p.flags
           /\ IF HasFlag(p.flags, FLAGS_ACK)
              THEN /\ rpc' = "Established"
                   /\ expected_seq_num' = 1
                   /\ received_data' = <<>>
              ELSE UNCHANGED <<rpc, expected_seq_num, received_data>>
    /\ UNCHANGED <<discard, dropped, received_file, to_client, txLog>>
    /\ UNCHANGED <<losses, dups, senderVars, configVars>>

\* mutant of IsExpected: a later packet is accepted too
IsExpected_Later(seq, expected) == seq >= expected

\* line 474: if seq_num == expected_seq_num
IsExpected(seq, expected) == seq = expected

\* mutant of IsDiscarded: the directive is never consumed
IsDiscarded_Every(seq, d) == seq = discard0

\* line 467: if seq_num == discard
IsDiscarded(seq, d) == d # None /\ seq = d

\* lines 455-509: a datagram arrives in the receiver's data loop; a
\* struct.error raised by createPacket for the FIN-ACK (line 499) is caught
\* nowhere and ends the program before the file is written: StructError
RcvEstablished(i, cap) ==
    /\ rpc = "Established"
    /\ i \in DOMAIN to_server
    /\ to_server' = RemoveAt(to_server, i)
    /\ step' = [by |-> "receiver", event |-> "recv", packet |-> to_server[i], window |-> window]
    /\ LET p == parsePacket(to_server[i])
           accept == IsExpected(p.seq_num, expected_seq_num)
           ack_packet == createPacket(0, p.seq_num, FLAGS_ACK, <<>>)
           fin == HasFlag(p.flags, FLAGS_FIN)
           error == fin /\ ~FitsHeader(p.seq_num + 1, 0, FLAGS_ACK + FLAGS_FIN)
           fin_ack_packet == createPacket(p.seq_num + 1, 0, FLAGS_ACK + FLAGS_FIN, <<>>)
           rd == IF accept THEN Store(received_data, p.seq_num, p.data) ELSE received_data
           out == (IF accept THEN <<ack_packet>> ELSE <<>>) \o
                  (IF fin /\ ~error THEN <<fin_ack_packet>> ELSE <<>>)
       IN  /\ rcv_seq_num' = p.seq_num
           /\ rcv_flags' = p.flags
           /\ IF IsDiscarded(p.seq_num, discard)
              THEN /\ discard' = None
                   /\ dropped' = dropped \cup {p.seq_num}
                   /\ sendto' = <<>>
                   /\ UNCHANGED <<rpc, expected_seq_num, received_data, received_file,
                                  to_client, txLog>>
              ELSE /\ expected_seq_num' = IF accept THEN expected_seq_num + 1
                                          ELSE expected_seq_num
                   /\ received_data' = rd
                   /\ rpc' = IF error THEN "StructError"
                             ELSE IF fin THEN "Closed" ELSE "Established"
                   /\ received_file' = IF fin /\ ~error THEN WriteFile(rd, DOMAIN rd)
                                        ELSE received_file
                   /\ to_client' = Put(to_client, out, cap)
                   /\ sendto' = out
                   /\ txLog' = LogAll(txLog, out)
                   /\ UNCHANGED <<discard, dropped>>
    /\ UNCHANGED <<losses, dups, senderVars, configVars>>

\* line 412 (the with statement has closed the socket): a datagram that
\* arrives after receiveFile has returned is discarded by the host
RcvClosed(i) ==
    /\ rpc \in {"Closed", "Failed", "StructError"}
    /\ i \in DOMAIN to_server
    /\ to_server' = RemoveAt(to_server, i)
    /\ step' = [by |-> "receiver", event |-> "closed", packet |-> to_server[i], window |-> window]
    /\ sendto' = <<>>
    /\ UNCHANGED <<to_client, txLog, losses, dups, senderVars, receiverVars, configVars>>

\* ----------------------------------------------------------------- network
\* the channel loses a datagram
LoseToServer(i) ==
    /\ i \in DOMAIN to_server
    /\ to_server' = RemoveAt(to_server, i)
    /\ step' = [by |-> "network", event |-> "lose", packet |-> to_server[i], window |-> window]
    /\ sendto' = <<>>
    /\ UNCHANGED <<to_client, txLog, senderVars, receiverVars, configVars>>

LoseToClient(i) ==
    /\ i \in DOMAIN to_client
    /\ to_client' = RemoveAt(to_client, i)
    /\ step' = [by |-> "network", event |-> "lose", packet |-> to_client[i], window |-> window]
    /\ sendto' = <<>>
    /\ UNCHANGED <<to_server, txLog, senderVars, receiverVars, configVars>>

\* ------------------------------------------------------------ configuration
\* file sizes of at most n chunks: the empty file and one file for each number
\* of chunks, ending on a chunk boundary (odd) or with a last chunk of 18 bytes
\* (even): 0, 994, 1012, 2982, 3000, ...
FileSizes(n) ==
    {0} \cup {DATA_SIZE * k - (IF k % 2 = 0 THEN DATA_SIZE - 18 ELSE 0) : k \in 1..n}

WindowSizes(w) == 0..w

Discards(n) == {None} \cup (0..(n + 1))

InitWith(sizes, windows, discards) ==
    /\ filesize \in sizes
    /\ window_size \in windows
    /\ discard0 \in discards
    /\ discard = discard0
    /\ spc = "Start"
    /\ seq_num = 0
    /\ window = <<>>
    /\ unack_packets = {}
    /\ fin_packet = <<>>
    /\ acked = 0
    /\ rpc = "Listen"
    /\ expected_seq_num = 0
    /\ received_data = <<>>
    /\ rcv_seq_num = None
    /\ rcv_flags = None
    /\ dropped = {}
    /\ received_file = <<>>
    /\ to_server = <<>>
    /\ to_client = <<>>
    /\ sendto = <<>>
    /\ step = [by |-> "none", event |-> "init", packet |-> <<>>, window |-> window]
    /\ txLog = <<>>
    /\ losses = 0
    /\ dups = 0

\* ------------------------------------------------ lossy, reordering channel
\* Datagrams are delivered in any order, may be lost, and a receive call may
\* time out at any moment (a datagram may be delayed beyond the 0.5 s).
Init == InitWith(FileSizes(MaxChunks), WindowSizes(MaxW), Discards(MaxChunks)) /\ codec = [pc |-> "off"]

SenderTimeout == SndSynTimeout(ChanCap) \/ SndDataTimeout(ChanCap) \/ SndFinTimeout(ChanCap)

SenderReceive ==
    \E i \in DOMAIN to_client :
        SndSynSent(i, ChanCap) \/ SndEstablished(i, ChanCap) \/ SndFinWait(i, ChanCap)

ReceiverReceive ==
    \E i \in DOMAIN to_server :
        RcvListen(i, ChanCap) \/ RcvSynRcvd(i) \/ RcvEstablished(i, ChanCap)

Lose ==
    /\ losses' = losses
    /\ dups' = dups
    /\ \/ \E i \in DOMAIN to_server : LoseToServer(i)
       \/ \E i \in DOMAIN to_client : LoseToClient(i)

Next ==
    \/ SndStart(ChanCap)
    \/ SenderTimeout
    \/ SenderReceive
    \/ ReceiverReceive
    \/ Lose

Spec == Init /\ [][Next]_vars

\* ------------------------------------------- loss-free, order-keeping channel
\* Every datagram is delivered, in the order sent, well within the 0.5 s of
\* a receive call: a receive call times out only when nothing is in flight.
\* (While the sender waits for SYN-ACK something always is in flight.)
InitFifo ==
    /\ InitWith(FileSizes(MaxChunksFifo), WindowSizes(MaxWFifo), Discards(MaxChunksFifo))
    /\ codec = [pc |-> "off"]

SenderTimeoutFifo ==
    /\ Quiescent
    /\ SndDataTimeout(FreeCap) \/ SndFinTimeout(FreeCap)

SenderReceiveFifo ==
    SndSynSent(1, FreeCap) \/ SndEstablished(1, FreeCap) \/ SndFinWait(1, FreeCap)

ReceiverReceiveFifo ==
    RcvListen(1, FreeCap) \/ RcvSynRcvd(1) \/ RcvEstablished(1, FreeCap)

NextFifo ==
    \/ SndStart(FreeCap)
    \/ SenderTimeoutFifo
    \/ SenderReceiveFifo
    \/ ReceiverReceiveFifo

SpecFifo == InitFifo /\ [][NextFifo]_vars /\ WF_vars(NextFifo)

\* ------------------------------------------------------ fair-lossy channel
\* Datagrams are delivered in any order; the channel loses at most MaxLoss
\* datagrams of a run, so a datagram that is resent forever is delivered; a
\* receive call times out only when nothing is in flight.  Both peers keep
\* running: a peer whose receive call can return takes its step.
InitFair == InitWith(FileSizes(MaxChunks), WindowSizes(MaxW), Discards(MaxChunks)) /\ codec = [pc |-> "off"]

SenderTimeoutFair ==
    /\ Quiescent
    /\ SndSynTimeout(FreeCap) \/ SndDataTimeout(FreeCap) \/ SndFinTimeout(FreeCap)

SenderReceiveFair ==
    \E i \in DOMAIN to_client :
        SndSynSent(i, FreeCap) \/ SndEstablished(i, FreeCap) \/ SndFinWait(i, FreeCap)

ReceiverReceiveFair ==
    \E i \in DOMAIN to_server :
        RcvListen(i, FreeCap) \/ RcvSynRcvd(i) \/ RcvEstablished(i, FreeCap) \/ RcvClosed(i)

LoseFair ==
    /\ losses < MaxLoss
    /\ losses' = losses + 1
    /\ dups' = dups
    /\ \/ \E i \in DOMAIN to_server : LoseToServer(i)
       \/ \E i \in DOMAIN to_client : LoseToClient(i)

SenderFair == SndStart(FreeCap) \/ SenderTimeoutFair \/ SenderReceiveFair

NextFair ==
    \/ SenderFair
    \/ ReceiverReceiveFair
    \/ LoseFair

SpecFair ==
    /\ InitFair
    /\ [][NextFair]_vars
    /\ WF_vars(SenderFair)
    /\ WF_vars(ReceiverReceiveFair)

\* ------------------------------------- transport faults and receiver timeouts
\* mutant of SndSynError: the fault is handled like a timeout (SYN resent)
SndSynError_Retry ==
    /\ spc = "SynSent"
    /\ to_server' = Put(to_server, <<syn_packet>>, FreeCap)
    /\ sendto' = <<syn_packet>>
    /\ txLog' = LogAll(txLog, <<syn_packet>>)
    /\ step' = [by |-> "sender", event |-> "error", packet |-> <<>>, window |-> window]
    /\ UNCHANGED <<senderVars, to_client, losses, dups, receiverVars, configVars>>

\* lines 260-267: the receive call of the SYN-ACK wait loop raises
\* ConnectionResetError or another socket.error: sendFile prints and returns
SndSynError ==
    /\ spc = "SynSent"
    /\ spc' = "Closed"
    /\ step' = [by |-> "sender", event |-> "error", packet |-> <<>>, window |-> window]
    /\ sendto' = <<>>
    /\ UNCHANGED <<seq_num, window, unack_packets, fin_packet, acked>>
    /\ UNCHANGED <<to_server, to_client, txLog, losses, dups, receiverVars, configVars>>

\* lines 305-352: the receive call of the data loop raises an exception other
\* than socket.timeout; the try statement has no clause for it, so it leaves
\* sendFile (closing file and socket) and ends the program
SndDataError ==
    /\ spc = "Established"
    /\ spc' = "Failed"
    /\ step' = [by |-> "sender", event |-> "error", packet |-> <<>>, window |-> window]
    /\ sendto' = <<>>
    /\ UNCHANGED <<seq_num, window, unack_packets, fin_packet, acked>>
    /\ UNCHANGED <<to_server, to_client, txLog, losses, dups, receiverVars, configVars>>

\* lines 379-390: the same in the FIN-ACK wait loop
SndFinError ==
    /\ spc = "FinWait"
    /\ spc' = "Failed"
    /\ step' = [by |-> "sender", event |-> "error", packet |-> <<>>, window |-> window]
    /\ sendto' = <<>>
    /\ UNCHANGED <<seq_num, window, unack_packets, fin_packet, acked>>
    /\ UNCHANGED <<to_server, to_client, txLog, losses, dups, receiverVars, configVars>>

\* lines 491-502: the receive call of the receiver's data loop raises
\* socket.timeout (nothing has arrived): the timeout is logged, and the FIN
\* check of line 495 then runs on flags and seq_num as the last parsed packet
\* left them
RcvTimeout(cap) ==
    /\ rpc = "Established"
    /\ to_server = <<>>
    /\ step' = [by |-> "receiver", event |-> "timeout", packet |-> <<>>, window |-> window]
    /\ LET fin == HasFlag(rcv_flags, FLAGS_FIN)
           error == fin /\ ~FitsHeader(rcv_seq_num + 1, 0, FLAGS_ACK + FLAGS_FIN)
           fin_ack_packet == createPacket(rcv_seq_num + 1, 0, FLAGS_ACK + FLAGS_FIN, <<>>)
           out == IF fin /\ ~error THEN <<fin_ack_packet>> ELSE <<>>
       IN  /\ rpc' = IF error THEN "StructError"
                     ELSE IF fin THEN "Closed" ELSE "Established"
           /\ received_file' = IF fin /\ ~error
                                THEN WriteFile(received_data, DOMAIN received_data)
                                ELSE received_file
           /\ to_client' = Put(to_client, out, cap)
           /\ sendto' = out
           /\ txLog' = LogAll(txLog, out)
    /\ UNCHANGED <<expected_seq_num, received_data, rcv_seq_num, rcv_flags, discard, dropped>>
    /\ UNCHANGED <<to_server, losses, dups, senderVars, configVars>>

\* The fair-lossy channel, with a transport that may fail a receive call of
\* the sender and time out a receive call of the receiver's data loop.
InitFault == InitWith(FileSizes(MaxChunks), WindowSizes(MaxW), Discards(MaxChunks)) /\ codec = [pc |-> "off"]

SenderFault == SndSynError \/ SndDataError \/ SndFinError

NextFault ==
    \/ SenderFair
    \/ ReceiverReceiveFair
    \/ LoseFair
    \/ SenderFault
    \/ RcvTimeout(FreeCap)

SpecFault == InitFault /\ [][NextFault]_vars

\* ------------------------------------------------------ duplicating channel
\* UDP may deliver a datagram more than once: a copy of a datagram in flight
\* is put in flight behind it.
DuplicateToServer(i) ==
    /\ i \in DOMAIN to_server
    /\ to_server' = Append(to_server, to_server[i])
    /\ step' = [by |-> "network", event |-> "duplicate", packet |-> to_server[i], window |-> window]
    /\ sendto' = <<>>
    /\ UNCHANGED <<to_client, txLog, senderVars, receiverVars, configVars>>

DuplicateToClient(i) ==
    /\ i \in DOMAIN to_client
    /\ to_client' = Append(to_client, to_client[i])
    /\ step' = [by |-> "network", event |-> "duplicate", packet |-> to_client[i], window |-> window]
    /\ sendto' = <<>>
    /\ UNCHANGED <<to_server, txLog, senderVars, receiverVars, configVars>>

Duplicate ==
    /\ dups < MaxDup
    /\ dups' = dups + 1
    /\ losses' = losses
    /\ \/ \E i \in DOMAIN to_server : DuplicateToServer(i)
       \/ \E i \in DOMAIN to_client : DuplicateToClient(i)

\* The fair-lossy channel that also duplicates at most MaxDup datagrams of a
\* run; the receiver runs without the discard option, the channel does the losing.
InitDup == InitWith(FileSizes(MaxChunks), WindowSizes(MaxW), {None}) /\ codec = [pc |-> "off"]

NextDup ==
    \/ SenderFair
    \/ ReceiverReceiveFair
    \/ LoseFair
    \/ Duplicate

SpecDup == InitDup /\ [][NextDup]_vars

\* --------------------------------------------------------- codec on its own
\* createPacket and then parsePacket, applied to header values around the
\* byte and field boundaries (65536 does not fit: struct.error) and to byte
\* payloads: all short ones over {0, 255}, one of DATA_SIZE bytes.
RECURSIVE BytesUpTo(_)
BytesUpTo(n) ==
    IF n = 0 THEN {<<>>}
    ELSE BytesUpTo(n - 1) \cup
         {Append(b, x) : b \in {c \in BytesUpTo(n - 1) : Len(c) = n - 1}, x \in {0, 255}}

FieldValues == {0, 1, 255, 256, 65535, 65536}

FlagValues == {0, FLAGS_SYN, FLAGS_ACK, FLAGS_FIN, FLAGS_SYN + FLAGS_ACK, FLAGS_ACK + FLAGS_FIN}

Payloads == BytesUpTo(MaxPayloadLen) \cup {[j \in 1..DATA_SIZE |-> j % 256]}

InitCodec ==
    /\ InitWith({0}, {0}, {None})
    /\ codec \in [pc : {"input"}, seq_num : FieldValues, ack_num : FieldValues,
                  flags : FlagValues, data : Payloads, packet : {<<>>}, parsed : {<<>>}]

\* packet = createPacket(seq_num, ack_num, flags, data)
CodecCreate ==
    /\ codec.pc = "input"
    /\ codec' = IF FitsHeader(codec.seq_num, codec.ack_num, codec.flags)
                THEN [codec EXCEPT !.pc = "created",
                                   !.packet = createPacket(codec.seq_num, codec.ack_num,
                                                           codec.flags, codec.data)]
                ELSE [codec EXCEPT !.pc = "struct.error"]
    /\ UNCHANGED <<filesize, window_size, discard0, senderVars, receiverVars,
                   to_server, to_client, sendto, step, txLog, losses, dups>>

\* parsePacket(packet)
CodecParse ==
    /\ codec.pc = "created"
    /\ codec' = [codec EXCEPT !.pc = "parsed", !.parsed = parsePacket(codec.packet)]
    /\ UNCHANGED <<filesize, window_size, discard0, senderVars, receiverVars,
                   to_server, to_client, sendto, step, txLog, losses, dups>>

NextCodec == CodecCreate \/ CodecParse

SpecCodec == InitCodec /\ [][NextCodec]_vars

\* ------------------------------------------- header fields along a transfer
\* The createPacket calls one position of a transfer causes: the sender builds
\* the packet its counter seq_num asks for (sendPacket while the file has data
\* there, the FIN once it has none), the receiver parses it and builds its
\* replies from the parsed seq_num.  Files of one or two chunks and files
\* whose chunk count is around the largest header value, 65535; counter
\* values at both ends of the file.
CallChunks == {1, 2, U16 - 3, U16 - 2, U16 - 1, U16, U16 + 1}

CallFileSizes == {DATA_SIZE * n - r : n \in CallChunks, r \in {0, 1, DATA_SIZE - 1}}

CallSeqs(n) == {1, 2, n - 1, n, n + 1} \cap 1..(n + 1)

InitCalls ==
    /\ InitWith(CallFileSizes, {1}, {None})
    /\ codec \in [pc : {"counter"}, seq_num : CallSeqs(NumChunks(filesize)),
                  packet : {<<>>}, parsed : {<<>>}, replies : {<<>>}]

\* lines 183-196 and 371: with nothing outstanding the sender builds the data
\* packet seq_num or, when the file has no data there, the FIN
CallSend ==
    /\ codec.pc = "counter"
    /\ LET r == sendPacket(codec.seq_num, <<>>)
           finished == ~r.ok /\ ~r.error
           error == r.error \/ (finished /\ ~FitsHeader(codec.seq_num, 0, FLAGS_FIN))
           fin == createPacket(codec.seq_num, 0, FLAGS_FIN, <<>>)
       IN  codec' = IF error THEN [codec EXCEPT !.pc = "struct.error"]
                    ELSE [codec EXCEPT !.pc = "created",
                                       !.packet = IF finished THEN fin ELSE r.sent[1]]
    /\ UNCHANGED <<filesize, window_size, discard0, senderVars, receiverVars,
                   to_server, to_client, sendto, step, txLog, losses, dups>>

\* lines 478-479 and 495-500: the receiver's replies to the parsed packet when
\* it is the expected one: the ACK and, for a FIN, the FIN-ACK
CallReply ==
    /\ codec.pc = "parsed"
    /\ LET p == codec.parsed
           ack_packet == createPacket(0, p.seq_num, FLAGS_ACK, <<>>)
           fin == HasFlag(p.flags, FLAGS_FIN)
           error == \/ ~FitsHeader(0, p.seq_num, FLAGS_ACK)
                    \/ fin /\ ~FitsHeader(p.seq_num + 1, 0, FLAGS_ACK + FLAGS_FIN)
           fin_ack_packet == createPacket(p.seq_num + 1, 0, FLAGS_ACK + FLAGS_FIN, <<>>)
       IN  codec' = IF error THEN [codec EXCEPT !.pc = "struct.error"]
                    ELSE [codec EXCEPT !.pc = "replied",
                                       !.replies = <<ack_packet>> \o
                                                   (IF fin THEN <<fin_ack_packet>> ELSE <<>>)]
    /\ UNCHANGED <<filesize, window_size, discard0, senderVars, receiverVars,
                   to_server, to_client, sendto, step, txLog, losses, dups>>

NextCalls == CallSend \/ CodecParse \/ CallReply

SpecCalls == InitCalls /\ [][NextCalls]_vars

\* ====================================================================
\* Properties
\* ====================================================================
N == NumChunks(filesize)

DataHeader(k) == PackH(k) \o PackH(0) \o PackH(0)
AckHeader(k) == PackH(0) \o PackH(k) \o PackH(FLAGS_ACK)

\* C1: whenever the receiver is Closed after a transfer with W >= 1, the file
\* it wrote equals the source file, and every chunk 1..N is in the
\* Received-Data Map under its own sequence number with the payload the
\* sender read for it.
C1_Integrity ==
    (rpc = "Closed" /\ window_size >= 1) =>
        /\ received_file = FileRuns(0)
        /\ \A k \in 1..N :
              /\ k \in DOMAIN received_data
              /\ received_data[k] = FileRead(DATA_SIZE * (k - 1))

\* a transfer of the largest file that needed a retransmission has closed
C1_Witness ==
    /\ rpc = "Closed"
    /\ window_size >= 1
    /\ N = MaxChunks
    /\ Sent(DataHeader(1)) >= 2
    /\ received_file = FileRuns(0)

\* the datagram the last step received, parsed
Got == parsePacket(step.packet)

SenderGotAck ==
    /\ step.by = "sender" /\ step.event = "recv"
    /\ HasFlag(Got.flags, FLAGS_ACK)

\* C3 (state part): the window holds at most W sequence numbers, without
\* repetition, and every member is greater than every ack number processed.
C3_WindowBound ==
    /\ Len(window) <= window_size
    /\ Cardinality(Range(window)) = Len(window)
    /\ \A m \in Range(window) : m > acked

\* C3 (step part): a member leaves the window only in a step of the data
\* loop that processes an ACK-flagged packet whose ack_num is >= the member.
C3_Removal ==
    \A m \in Range(window) \ Range(window') :
        /\ spc = "Established"
        /\ step'.by = "sender" /\ step'.event = "recv"
        /\ HasFlag(parsePacket(step'.packet).flags, FLAGS_ACK)
        /\ parsePacket(step'.packet).ack_num >= m

\* C3: window invariant of the sender's data loop, for every window size.
C3_WindowInvariant == [](window_size >= 1 => C3_WindowBound) /\ [][C3_Removal]_vars

\* the data loop holds a full window after an ACK was processed and a
\* retransmission was made
C3_Witness ==
    /\ spc = "Established"
    /\ window_size >= 1
    /\ Len(window) = window_size
    /\ acked >= 1
    /\ Sent(DataHeader(2)) >= 2

\* C4: an ACK-flagged packet with ack number A, received in the data loop,
\* leaves the members that are > A, in order, followed by the next unsent
\* sequence numbers, as many as fit in W and as the file has chunks left.
C4_Step ==
    (/\ spc = "Established"
     /\ step'.by = "sender" /\ step'.event = "recv"
     /\ HasFlag(parsePacket(step'.packet).flags, FLAGS_ACK))
    => LET A == parsePacket(step'.packet).ack_num
           kept == SelectSeq(window, LAMBDA m : m > A)
           left == N - (seq_num - 1)
           room == window_size - Len(kept)
           n == IF room < left THEN room ELSE left
       IN  /\ window' = kept \o [j \in 1..n |-> seq_num + j - 1]
           /\ seq_num' = seq_num + n

ReceiverGot ==
    /\ step.by = "receiver" /\ step.event = "recv"
    /\ expected_seq_num >= 1

\* C5: a packet whose seq_num differs from expected_seq_num makes the
\* receiver's data loop send nothing, store nothing and keep expected_seq_num.
C5_Step ==
    (/\ rpc = "Established"
     /\ step'.by = "receiver" /\ step'.event = "recv"
     /\ parsePacket(step'.packet).seq_num # expected_seq_num)
    => /\ sendto' = <<>>
       /\ to_client' = to_client
       /\ received_data' = received_data
       /\ expected_seq_num' = expected_seq_num

C5_GoBackN == [][C5_Step]_vars

\* a later, out-of-order data packet was received and nothing changed
C5_Witness ==
    /\ rpc = "Established"
    /\ ReceiverGot
    /\ discard0 = None
    /\ Got.seq_num > expected_seq_num
    /\ Got.flags = 0
    /\ Got.seq_num \notin DOMAIN received_data

\* a duplicate of an accepted data packet was received and nothing changed
C5_WitnessDuplicate ==
    /\ rpc = "Established"
    /\ ReceiverGot
    /\ Got.seq_num >= 1
    /\ Got.seq_num < expected_seq_num
    /\ sendto = <<>>

\* C6 (state part): the keys of the Received-Data Map are 1..expected_seq_num-1.
C6_NoGaps ==
    rpc \in {"Established", "Closed"} =>
        DOMAIN received_data = 1..(expected_seq_num - 1)

PureAcks(out) == SelectSeq(out, LAMBDA d : parsePacket(d).flags = FLAGS_ACK)

\* C6 (step part): the data loop admits a sequence number only when it
\* equals expected_seq_num and is not yet a key; the admission stores the
\* payload, sends one ACK with ack_num = seq_num and adds 1 to expected_seq_num.
C6_Step ==
    (/\ rpc = "Established"
     /\ \/ received_data' # received_data
        \/ expected_seq_num' # expected_seq_num)
    => LET p == parsePacket(step'.packet)
       IN  /\ step'.by = "receiver" /\ step'.event = "recv"
           /\ p.seq_num = expected_seq_num
           /\ p.seq_num \notin DOMAIN received_data
           /\ DOMAIN received_data' = DOMAIN received_data \cup {p.seq_num}
           /\ received_data'[p.seq_num] = p.data
           /\ \A k \in DOMAIN received_data : received_data'[k] = received_data[k]
           /\ expected_seq_num' = expected_seq_num + 1
           /\ PureAcks(sendto') = <<createPacket(0, p.seq_num, FLAGS_ACK, <<>>)>>

C6_InOrderAdmission == []C6_NoGaps /\ [][C6_Step]_vars

\* the second chunk was just admitted and acknowledged
C6_Witness ==
    /\ rpc = "Established"
    /\ ReceiverGot
    /\ Got.seq_num = 2
    /\ expected_seq_num = 3
    /\ DOMAIN received_data = {1, 2}
    /\ sendto = <<createPacket(0, 2, FLAGS_ACK, <<>>)>>

\* C7 (state part): the hook drops at most one packet, with the configured
\* number, and the directive is either as configured or consumed.
C7_Once ==
    /\ discard \in {discard0, None}
    /\ dropped \subseteq {discard0}
    /\ (dropped # {}) <=> (discard = None /\ discard0 # None)

\* C7 (step part): with the directive pending, a packet with seq_num = d is
\* dropped and consumes it; every other packet, and every packet after that,
\* is handled by the normal rules: accepted and acknowledged when it is the
\* expected one.
C7_Step ==
    (/\ rpc = "Established"
     /\ step'.by = "receiver" /\ step'.event = "recv")
    => LET p == parsePacket(step'.packet)
       IN  IF discard # None /\ p.seq_num = discard
           THEN /\ discard' = None
                /\ sendto' = <<>>
                /\ to_client' = to_client
                /\ received_data' = received_data
                /\ expected_seq_num' = expected_seq_num
                /\ rpc' = "Established"
           ELSE /\ discard' = discard
                /\ (p.seq_num = expected_seq_num) =>
                      /\ expected_seq_num' = expected_seq_num + 1
                      /\ p.seq_num \in DOMAIN received_data'
                      /\ received_data'[p.seq_num] = p.data
                      /\ PureAcks(sendto') = <<createPacket(0, p.seq_num, FLAGS_ACK, <<>>)>>

C7_DiscardOnce == []C7_Once /\ [][C7_Step]_vars

\* the first packet 2 was dropped and its retransmission has been accepted
C7_Witness ==
    /\ discard0 = 2
    /\ dropped = {2}
    /\ discard = None
    /\ ReceiverGot
    /\ Got.seq_num = 2
    /\ 2 \in DOMAIN received_data
    /\ received_data[2] = FileRead(DATA_SIZE)
    /\ sendto = <<createPacket(0, 2, FLAGS_ACK, <<>>)>>

BothEstablished == spc = "Established" /\ rpc = "Established"

\* the sender has left the data loop and sent FIN
FinSent == spc \in {"FinWait", "Closed"} /\ fin_packet # <<>>

\* C2: once both peers are Established, with W >= 1 and a fair-lossy channel,
\* the sender eventually empties its window, leaves the data loop and sends FIN.
C2_DataPhaseLiveness == (BothEstablished /\ window_size >= 1) ~> FinSent

FinHeader(k) == PackH(k) \o PackH(0) \o PackH(FLAGS_FIN)
FinAckHeader(k) == PackH(k) \o PackH(0) \o PackH(FLAGS_ACK + FLAGS_FIN)

\* the datagrams of out that are data packets (no flag set)
DataPackets(out) ==
    SelectSeq(out, LAMBDA d : parsePacket(d).flags = 0 /\ parsePacket(d).seq_num >= 1)

DropSecond == discard0 = 2 /\ N >= 2 /\ window_size >= 1

\* the sender's data loop timed out with 2 outstanding and resent one data
\* packet for every member of its window, in window order
ResentWindowWith2 ==
    /\ step.by = "sender" /\ step.event = "timeout"
    /\ 2 \in Range(step.window)
    /\ sendto = [j \in 1..Len(step.window) |-> DataPacket(step.window[j])]

\* the receiver has closed with every chunk 1..N stored and a complete file
AllAccepted ==
    /\ rpc = "Closed"
    /\ \A k \in 1..N : k \in DOMAIN received_data
    /\ DOMAIN received_data = 1..(expected_seq_num - 1)
    /\ received_file = FileRuns(0)

\* the receiver accepts sequence numbers in increasing order, one at a time
AcceptsInOrder ==
    (rpc = "Established" /\ received_data' # received_data)
    => DOMAIN received_data' = DOMAIN received_data \cup {expected_seq_num}

\* C8: on the loss-free channel, with the discard hook dropping the first
\* packet 2 of a file of N >= 2 chunks and W >= 1, the sender times out and
\* resends its whole window including 2, and the receiver accepts 1..N in
\* increasing order and ends with a file without gap.
C8_LossAndRetransmit ==
    /\ <>(DropSecond => ResentWindowWith2)
    /\ <>[](DropSecond => AllAccepted)
    /\ [][DropSecond => AcceptsInOrder]_vars

\* the transfer of the largest file, with packet 2 dropped once and sent
\* twice, has completed
C8_Witness ==
    /\ DropSecond
    /\ N = MaxChunksFifo
    /\ dropped = {2}
    /\ Sent(DataHeader(2)) = 2
    /\ AllAccepted
    /\ spc = "Closed"

LossFree == discard0 = None /\ window_size >= 1

\* the number of bytes of chunk k of the file
ChunkLen(k) == IF k < N THEN DATA_SIZE ELSE filesize - DATA_SIZE * (N - 1)

\* every data packet of a step is the next one never sent before, carries the
\* bytes of its chunk (994, the last one the remainder), and FIN is sent only
\* after all N data packets
C9_Step ==
    LET out == DataPackets(sendto')
    IN  /\ \A j \in 1..Len(out) :
              LET p == parsePacket(out[j])
              IN  /\ p.seq_num \in 1..N
                  /\ Sent(DataHeader(p.seq_num)) = 0
                  /\ \A k \in 1..(p.seq_num - 1) :
                        Sent(DataHeader(k)) = 1 \/ \E i \in 1..(j - 1) : out[i] = DataPacket(k)
                  /\ ByteLen(p.data) = ChunkLen(p.seq_num)
                  /\ p.data = <<[off |-> DATA_SIZE * (p.seq_num - 1), len |-> ChunkLen(p.seq_num)]>>
        /\ \A j \in 1..Len(sendto') :
              HasFlag(parsePacket(sendto'[j]).flags, FLAGS_FIN) =>
                  \A k \in 1..N : Sent(DataHeader(k)) = 1

\* both peers are Closed after N data packets, each sent once and
\* acknowledged once, one FIN with seq N + 1 and one FIN|ACK
C9_Done ==
    /\ spc = "Closed" /\ rpc = "Closed"
    /\ \A k \in 1..N : Sent(DataHeader(k)) = 1 /\ Sent(AckHeader(k)) = 1
    /\ \A h \in DOMAIN txLog :
          LET p == parsePacket(h)
          IN  /\ txLog[h] = 1
              /\ (p.flags = 0) => p.seq_num \in 1..N
              /\ HasFlag(p.flags, FLAGS_FIN) => h \in {FinHeader(N + 1), FinAckHeader(N + 2)}
    /\ Sent(FinHeader(N + 1)) = 1
    /\ Sent(FinAckHeader(N + 2)) = 1
    /\ received_file = FileRuns(0)

\* C9: on the loss-free channel without discard, a file of S bytes and
\* W >= 1 give N = ceil(S/994) data packets, each sent once, in order 1..N,
\* with 994 bytes (the last the remainder), each acknowledged, then one FIN
\* and one FIN|ACK, and both peers end Closed.
C9_LossFreeRun ==
    /\ [][LossFree => C9_Step]_vars
    /\ <>[](LossFree => C9_Done)

\* the 3000-byte file with window size 3 has been transferred in four data
\* packets of 994, 994, 994 and 18 bytes
C9_Witness ==
    /\ LossFree
    /\ filesize = 3000 /\ window_size = 3
    /\ N = 4 /\ ChunkLen(4) = 18
    /\ C9_Done
    /\ received_file = <<[off |-> 0, len |-> 994], [off |-> 994, len |-> 994],
                         [off |-> 1988, len |-> 994], [off |-> 2982, len |-> 18]>>

\* C10: for header values that fit their fields and a payload of at most 994
\* bytes, parsePacket(createPacket(seq, ack, flags, payload)) is
\* (seq, ack, flags, payload), and the datagram has 6 + len(payload) <= 1000 bytes.
C10_RoundTrip ==
    (/\ codec.pc = "parsed"
     /\ FitsHeader(codec.seq_num, codec.ack_num, codec.flags)
     /\ Len(codec.data) <= DATA_SIZE)
    => /\ codec.parsed = [seq_num |-> codec.seq_num, ack_num |-> codec.ack_num,
                          flags |-> codec.flags, data |-> codec.data]
       /\ Len(codec.packet) = HEADER_SIZE + Len(codec.data)
       /\ Len(codec.packet) <= MAX_PACKET_SIZE

\* a packet with two-byte fields and a payload of 994 bytes was encoded
\* into 1000 bytes and decoded
C10_Witness ==
    /\ codec.pc = "parsed"
    /\ codec.seq_num = 256 /\ codec.ack_num = 65535 /\ codec.flags = FLAGS_ACK + FLAGS_FIN
    /\ Len(codec.data) = DATA_SIZE
    /\ Len(codec.packet) = MAX_PACKET_SIZE
    /\ codec.parsed.data = codec.data

\* the peer has completed its part of the handshake (it is Established or beyond)
SenderConnected == spc \in {"Established", "FinWait", "Closed"}
ReceiverConnected == rpc \in {"Established", "Closed"}

\* C11: on the fair-lossy channel, whichever handshake datagram (SYN, SYN|ACK,
\* handshake ACK) is lost, the sender's resending on timeout leads to a state
\* where the sender and the receiver have both completed the handshake.
C11_HandshakeLiveness == <>(SenderConnected /\ ReceiverConnected)

\* C12: once the sender has sent FIN to an Established receiver, on the
\* fair-lossy channel its resending of FIN on every timeout eventually brings
\* a FIN|ACK back and the sender reaches Closed.
C12_TeardownLiveness == (FinSent /\ rpc = "Established") ~> (spc = "Closed")

\* the FIN was built with every chunk 1..N sent and acknowledged, the window
\* empty, and carries flags = FIN, ack = 0 and seq = N + 1
CompleteAtFin ==
    /\ window = <<>>
    /\ \A k \in 1..N : Sent(DataHeader(k)) >= 1
    /\ acked >= N
    /\ fin_packet = createPacket(N + 1, 0, FLAGS_FIN, <<>>)
    /\ parsePacket(fin_packet) = [seq_num |-> N + 1, ack_num |-> 0, flags |-> FLAGS_FIN,
                                  data |-> <<>>]

\* C13: for every window size and every file, the sender has left the data
\* loop and sent FIN only with an empty window and every chunk 1..N sent and
\* cumulatively acknowledged, and the FIN has flags = FIN, ack = 0, seq = N + 1.
C13_DataPhaseCompletion == (fin_packet # <<>>) => CompleteAtFin

\* the bytes of chunk k of the file, as the payload of a data packet
Chunk(k) == <<[off |-> DATA_SIZE * (k - 1), len |-> ChunkLen(k)]>>

\* every data packet passed to sock.sendto, first transmission or not,
\* carries the bytes of the chunk its sequence number stands for
SamePayloadEveryTime ==
    \A j \in 1..Len(sendto') :
        LET p == parsePacket(sendto'[j])
        IN  (p.flags = 0 /\ p.seq_num >= 1) => (p.seq_num \in 1..N /\ p.data = Chunk(p.seq_num))

\* a receive-timeout in the sender's Established state resends one data
\* packet for every member of the window, in window order, each sent before,
\* and nothing else; window and seq_num are unchanged
C14_Step ==
    (spc = "Established" /\ step'.by = "sender" /\ step'.event = "timeout")
    => /\ Len(sendto') = Len(window)
       /\ \A j \in 1..Len(window) :
              /\ sendto'[j] = createPacket(window[j], 0, 0, Chunk(window[j]))
              /\ Sent(DataHeader(window[j])) >= 1
       /\ window' = window
       /\ seq_num' = seq_num
       /\ spc' = "Established"

\* C14: window-wide timeout retransmission: on a receive-timeout in
\* Established the sender resends one data packet for every sequence number
\* in the window, with the payload of its first transmission, and for no
\* other sequence number, and leaves the window and seq_num unchanged.
C14_TimeoutRetransmission == [][C14_Step /\ SamePayloadEveryTime]_vars

\* a timeout with the window <<1, 2>> of the 1012-byte file resent both
\* packets, of 994 and 18 bytes, and left the window and seq_num as they were
C14_Witness ==
    /\ spc = "Established"
    /\ step.by = "sender" /\ step.event = "timeout"
    /\ filesize = DATA_SIZE + 18
    /\ step.window = <<1, 2>>
    /\ window = <<1, 2>>
    /\ seq_num = 3
    /\ sendto = <<createPacket(1, 0, 0, <<[off |-> 0, len |-> DATA_SIZE]>>),
                  createPacket(2, 0, 0, <<[off |-> DATA_SIZE, len |-> 18]>>)>>
    /\ Sent(DataHeader(1)) = 2 /\ Sent(DataHeader(2)) = 2

\* the datagrams of out with no flag set
Unflagged(out) == SelectSeq(out, LAMBDA d : parsePacket(d).flags = 0)

\* headers of the receiver's data ACKs (seq = 0, flags = ACK) sent so far
DataAcksSent == {h \in DOMAIN txLog : parsePacket(h).flags = FLAGS_ACK /\ parsePacket(h).seq_num = 0}

\* before the handshake is complete on its side, the sender has sent neither
\* its handshake ACK nor a data packet, and the receiver has stored nothing
\* and sent no data ACK
C15_Before ==
    /\ spc \in {"Start", "SynSent"} =>
           \A h \in DOMAIN txLog :
               parsePacket(h).flags # 0 /\ (parsePacket(h).seq_num = 1 => parsePacket(h).flags # FLAGS_ACK)
    /\ rpc \in {"Listen", "SynRcvd"} => (received_data = <<>> /\ DataAcksSent = {})

\* the sender leaves SynSent for the data loop only in the step that receives
\* a packet with SYN and ACK set, and that step first sends the ACK-flagged
\* packet (seq = 1, ack = received seq + 1, no payload) and only then data;
\* any other step that sends a data packet is taken in Established
C15_SenderStep ==
    /\ (spc = "SynSent" /\ spc' \in {"Established", "FinWait", "Closed"})
       => /\ step'.by = "sender" /\ step'.event = "recv"
          /\ HasFlag(parsePacket(step'.packet).flags, FLAGS_SYN)
          /\ HasFlag(parsePacket(step'.packet).flags, FLAGS_ACK)
          /\ sendto' # <<>>
          /\ sendto'[1] = createPacket(1, parsePacket(step'.packet).seq_num + 1, FLAGS_ACK, <<>>)
          /\ parsePacket(sendto'[1]) = [seq_num |-> 1,
                                        ack_num |-> parsePacket(step'.packet).seq_num + 1,
                                        flags |-> FLAGS_ACK, data |-> <<>>]
    /\ (step'.by = "sender" /\ Unflagged(sendto') # <<>>)
       => \/ spc = "Established"
          \/ spc = "SynSent" /\ spc' \in {"Established", "FinWait", "Closed"}

\* the receiver leaves Listen only on a packet with SYN set, for the ACK wait
\* loop, and leaves that only on a packet with ACK set, entering Established
\* with expected_seq_num = 1 and an empty Received-Data Map
C15_ReceiverStep ==
    /\ (rpc = "Listen" /\ rpc' # "Listen")
       => /\ rpc' = "SynRcvd"
          /\ step'.by = "receiver" /\ step'.event = "recv"
          /\ HasFlag(parsePacket(step'.packet).flags, FLAGS_SYN)
    /\ (rpc = "SynRcvd" /\ rpc' # "SynRcvd")
       => /\ rpc' = "Established"
          /\ step'.by = "receiver" /\ step'.event = "recv"
          /\ HasFlag(parsePacket(step'.packet).flags, FLAGS_ACK)
          /\ expected_seq_num' = 1
          /\ received_data' = <<>>
          /\ sendto' = <<>>

\* C15: handshake ordering: no data packet from the sender before it has
\* received SYN|ACK and sent its ACK (seq = 1, ack = received seq + 1, empty);
\* no stored payload and no data ACK from the receiver before it has received
\* a SYN and then an ACK-flagged packet; it enters Established with
\* expected_seq_num = 1 and an empty Received-Data Map.
C15_HandshakeOrdering == []C15_Before /\ [][C15_SenderStep /\ C15_ReceiverStep]_vars

\* the receiver has just entered Established on the handshake ACK (seq = 1,
\* ack = 2) while the sender, after a resent SYN, has already sent data
C15_Witness ==
    /\ step.by = "receiver" /\ step.event = "recv"
    /\ Got = [seq_num |-> 1, ack_num |-> 2, flags |-> FLAGS_ACK, data |-> <<>>]
    /\ rpc = "Established"
    /\ expected_seq_num = 1
    /\ received_data = <<>>
    /\ spc = "Established"
    /\ Sent(Header(syn_packet)) = 2
    /\ Sent(DataHeader(1)) >= 1

\* every SYN|ACK and every FIN|ACK the receiver sends in a step has
\* ack_num = seq_num of the packet the step received + 1, and the SYN|ACK
\* carries the file size of the SYN
C16_Step ==
    (step'.by = "receiver" /\ step'.event = "recv")
    => \A j \in 1..Len(sendto') :
           LET q == parsePacket(sendto'[j])
               got == parsePacket(step'.packet)
           IN  /\ (HasFlag(q.flags, FLAGS_SYN) /\ HasFlag(q.flags, FLAGS_ACK))
                  => /\ q.ack_num = got.seq_num + 1
                     /\ parseSynPacket(sendto'[j]).file_size = parseSynPacket(step'.packet).file_size
               /\ (HasFlag(q.flags, FLAGS_FIN) /\ HasFlag(q.flags, FLAGS_ACK))
                  => q.ack_num = got.seq_num + 1

\* C16: the receiver's reply to a SYN (SYN|ACK, echoing the file size) and
\* its reply to a FIN (FIN|ACK) carry the received seq_num + 1 in ack_num.
C16_ReplyAckFields == [][C16_Step]_vars

\* the sender returned from the SYN-ACK wait loop on a socket error
HandshakeFailed == spc = "Closed" /\ fin_packet = <<>>

\* after a failed handshake the only datagrams ever sent are SYNs and the
\* receiver's SYN|ACK: no handshake ACK, no data packet, no FIN
C17_NothingSent ==
    HandshakeFailed =>
        \A h \in DOMAIN txLog : h \in {Header(syn_packet),
                                        Header(createSynPacket(1, 0, FLAGS_SYN + FLAGS_ACK, filesize))}

\* a socket error in SynSent closes the sender and sends nothing; a timeout
\* in SynSent resends the same SYN and stays in SynSent; a Closed sender
\* takes no further step
C17_Step ==
    /\ (spc = "SynSent" /\ step'.by = "sender" /\ step'.event = "error")
       => /\ spc' = "Closed"
          /\ sendto' = <<>>
          /\ to_server' = to_server
          /\ txLog' = txLog
    /\ (spc = "SynSent" /\ step'.by = "sender" /\ step'.event = "timeout")
       => /\ spc' = "SynSent"
          /\ sendto' = <<createSynPacket(0, 0, FLAGS_SYN, filesize)>>
    /\ (spc = "Closed")
       => /\ spc' = "Closed"
          /\ step'.by # "sender"
          /\ Len(to_server') <= Len(to_server)

\* C17: handshake failure is final: a connection reset or other socket error
\* in SynSent takes the sender to Closed without retry and without any
\* further datagram, while a receive-timeout in SynSent only resends the
\* same SYN and stays in SynSent.
C17_HandshakeFailureFinal == []C17_NothingSent /\ [][C17_Step]_vars

\* the sender resent its SYN on a timeout and then closed on a socket error
\* while the receiver's SYN|ACK was on its way
C17_Witness ==
    /\ HandshakeFailed
    /\ step.by = "sender" /\ step.event = "error"
    /\ Sent(Header(syn_packet)) = 2
    /\ rpc = "SynRcvd"
    /\ to_client # <<>>

\* C18: a receive call of the sender's data loop that fails with a fault
\* other than a timeout leaves the sender in Established with its window and
\* seq_num intact.
C18_Step ==
    (spc = "Established" /\ step'.by = "sender" /\ step'.event = "error")
    => /\ spc' = "Established"
       /\ window' = window
       /\ seq_num' = seq_num

C18_FaultsAbsorbed == [][C18_Step]_vars

\* C19: an iteration of the receiver's data loop whose receive call times
\* out sends no datagram, leaves expected_seq_num and the Received-Data Map
\* unchanged and keeps the receiver in Established.
C19_Step ==
    (rpc = "Established" /\ step'.by = "receiver" /\ step'.event = "timeout")
    => /\ sendto' = <<>>
       /\ to_client' = to_client
       /\ expected_seq_num' = expected_seq_num
       /\ received_data' = received_data
       /\ rpc' = "Established"

Removed ==
    IF spc = "Established" THEN {k \in 1..(seq_num - 1) : k \notin Range(window)}
    ELSE IF fin_packet # <<>> THEN 1..(parsePacket(fin_packet).seq_num - 1)
    ELSE {}

\* the sender's lowest unacknowledged sequence number
LowestUnacked ==
    IF spc = "Established"
    THEN (IF window # <<>> THEN Head(window) ELSE seq_num)
    ELSE parsePacket(fin_packet).seq_num

\* C20: every sequence number the sender has removed from its window is a
\* key of the receiver's Received-Data Map, and the sender's lowest
\* unacknowledged sequence number never exceeds the receiver's
\* expected_seq_num, under loss, reordering and duplication of datagrams.
C20_AckSoundness ==
    /\ Removed \subseteq DOMAIN received_data
    /\ (SenderConnected /\ ReceiverConnected) => LowestUnacked <= expected_seq_num

\* a copy of the SYN|ACK reached the sender in its data loop, after packet 1
\* had been acknowledged and removed, and removed nothing from the window
C20_Witness ==
    /\ spc = "Established"
    /\ step.by = "sender" /\ step.event = "recv"
    /\ Got.flags = FLAGS_SYN + FLAGS_ACK
    /\ step.window = <<2>>
    /\ window = <<2>>
    /\ Removed = {1}
    /\ 1 \in DOMAIN received_data

\* at teardown the keys of the Received-Data Map are exactly 1..N
C21_Keys == (rpc = "Closed") => (DOMAIN received_data = 1..N)

\* a step of the receiver's data loop that stores a payload, advances
\* expected_seq_num or sends a data ACK has received a packet with no
\* SYN, ACK or FIN flag
C21_Step ==
    (/\ rpc = "Established"
     /\ \/ received_data' # received_data
        \/ expected_seq_num' # expected_seq_num
        \/ PureAcks(sendto') # <<>>)
    => /\ step'.by = "receiver" /\ step'.event = "recv"
       /\ parsePacket(step'.packet).flags = 0

\* C21: the receiver stores, and answers with a data ACK, only packets that
\* carry no flag: a control packet whose seq_num equals expected_seq_num (the
\* FIN with seq = N + 1, a copy of the handshake ACK with seq = 1) is never
\* stored, never acknowledged and never advances expected_seq_num, so at
\* teardown the key set of the map is exactly 1..N.
C21_OnlyDataAdmitted == []C21_Keys /\ [][C21_Step]_vars

\* C22: for every source file, every seq_num and ack_num passed to
\* createPacket along a transfer (data packets 1..N, the FIN with seq N + 1,
\* the receiver's ACKs, the FIN|ACK built from the received seq + 1) lies in
\* 0..65535: no createPacket call fails, every packet built carries the
\* counter value it was built from, and the replies carry the received seq
\* and that seq plus one.
C22_SeqFitsHeader ==
    /\ codec.pc # "struct.error"
    /\ codec.pc \in {"created", "parsed", "replied"}
        => parsePacket(codec.packet).seq_num = codec.seq_num
    /\ codec.pc = "replied"
        => /\ parsePacket(codec.replies[1]).ack_num = codec.seq_num
           /\ Len(codec.replies) = 2
               => parsePacket(codec.replies[2]).seq_num = codec.seq_num + 1

====
